---- MODULE Spec2Model ----
(***************************************************************************)
(* Model of sentiment-api/main.py: the two module-level model handles, the *)
(* startup hook load_models, the helper analyze_single_text and the four   *)
(* endpoints GET /, GET /health, POST /analyze and POST /analyze/batch.    *)
(*                                                                         *)
(* Strings that the code inspects (texts, which are stripped, and raw      *)
(* labels, which are lower-cased) are sequences of one-character strings.  *)
(* The external classifiers are nondeterministic: each call either raises  *)
(* or returns a value, chosen per call from the outcome sets below.        *)
(* Confidences are integers in 0..MaxConf standing for c = n / MaxConf;    *)
(* the code only copies and negates them.  The wall-clock fields           *)
(* (processing_time, total_processing_time, timestamp) and the device      *)
(* fields are not modelled.                                                *)
(***************************************************************************)
EXTENDS Integers, Sequences, FiniteSets, TLC

VARIABLES
    phase,               \* "init" before the startup hook ran, then "ready" or "failed"
    sentiment_pipeline,  \* main.py:21, None or the loaded instance
    emotion_pipeline,    \* main.py:22, None or the loaded instance
    loadLog,             \* the pipeline(...) constructions load_models attempted, in order
    req,                 \* the request being handled, with the classifiers' behaviour on it
    resp,                \* the response to req
    calls                \* the classifier calls made while handling req, in order

vars == <<phase, sentiment_pipeline, emotion_pipeline, loadLog, req, resp, calls>>

-----------------------------------------------------------------------------
(* Bounds and program constants *)

MaxConf == 2        \* confidences are 0..MaxConf
MaxBatchLen == 3    \* short batches have 0..MaxBatchLen entries
MaxTexts == 100     \* main.py:160
TopEmotions == 3    \* main.py:107

None == "None"
SentimentInstance == "twitter-roberta-base-sentiment-latest"
EmotionInstance == "emotion-english-distilroberta-base"

-----------------------------------------------------------------------------
(* str.strip() and str.lower() *)

Whitespace == {" ", "\t", "\n"}

RECURSIVE lstrip(_)
lstrip(s) ==
    IF s = <<>> THEN <<>>
    ELSE IF Head(s) \in Whitespace THEN lstrip(Tail(s)) ELSE s

RECURSIVE rstrip(_)
rstrip(s) ==
    IF s = <<>> THEN <<>>
    ELSE IF s[Len(s)] \in Whitespace THEN rstrip(SubSeq(s, 1, Len(s) - 1)) ELSE s

strip(s) == rstrip(lstrip(s))

UpperLetters ==
    <<"A","B","C","D","E","F","G","H","I","J","K","L","M",
      "N","O","P","Q","R","S","T","U","V","W","X","Y","Z">>
LowerLetters ==
    <<"a","b","c","d","e","f","g","h","i","j","k","l","m",
      "n","o","p","q","r","s","t","u","v","w","x","y","z">>

LowerChar(c) ==
    IF \E i \in 1..26 : UpperLetters[i] = c
    THEN LowerLetters[CHOOSE i \in 1..26 : UpperLetters[i] = c]
    ELSE c

lower(s) == IF s = <<>> THEN <<>> ELSE [i \in 1..Len(s) |-> LowerChar(s[i])]

-----------------------------------------------------------------------------
(* Inputs: texts, raw labels, classifier outcomes *)

Texts ==
    { <<>>,
      <<"\t", " ">>,
      <<"o", "k">>,
      <<" ", "b", "a", "d", "\n">> }

str_positive == <<"p","o","s","i","t","i","v","e">>
str_pos      == <<"p","o","s">>
str_negative == <<"n","e","g","a","t","i","v","e">>
str_neg      == <<"n","e","g">>

RawLabels ==
    { str_positive, str_pos, str_negative, str_neg,
      <<"P","o","s","i","t","i","v","e">>,
      <<"P","O","S">>,
      <<"P","o","s">>,
      <<"N","E","G","A","T","I","V","E">>,
      <<"N","E","G">>,
      <<"n","e","u","t","r","a","l">>,
      <<"L","A","B","E","L","_","1">>,
      <<"p","o","s","i","t","i","v">>,
      <<>> }

Confidences == 0..MaxConf

\* What one call of the primary classifier does: raise, or return [{label, score}].
Raises == [ok |-> FALSE, label |-> <<>>, score |-> 0]
PrimaryOutcomes ==
    {Raises} \cup {[ok |-> TRUE, label |-> l, score |-> c] : l \in RawLabels, c \in Confidences}

\* The outcomes drawn for the calls of a batch.
BatchPrimaryOutcomes ==
    { Raises,
      [ok |-> TRUE, label |-> <<"P","o","s","i","t","i","v","e">>, score |-> MaxConf],
      [ok |-> TRUE, label |-> <<"N","E","G">>, score |-> 1] }

\* What one call of the emotion classifier does: raise, or return a ranked list.
EmotionRaises == [ok |-> FALSE, results |-> <<>>]
RankedFour ==
    << [label |-> "joy", score |-> 4], [label |-> "surprise", score |-> 3],
       [label |-> "neutral", score |-> 2], [label |-> "anger", score |-> 1] >>
RankedRepeat ==
    << [label |-> "joy", score |-> 4], [label |-> "joy", score |-> 3] >>
EmotionOutcomes ==
    { EmotionRaises,
      [ok |-> TRUE, results |-> <<>>],
      [ok |-> TRUE, results |-> RankedRepeat],
      [ok |-> TRUE, results |-> RankedFour] }
BatchEmotionOutcomes ==
    { EmotionRaises, [ok |-> TRUE, results |-> RankedFour] }

-----------------------------------------------------------------------------
(* Response shapes *)

NoEmotions == [present |-> FALSE, items |-> {}]
NoModels == [sentiment |-> FALSE, emotion |-> FALSE]

Response(status, results, models) ==
    [status |-> status, results |-> results, models |-> models]

NoRequest == [op |-> "none", texts |-> <<>>, primary |-> <<>>, emotion |-> <<>>]
NoResponse == Response(0, <<>>, NoModels)

-----------------------------------------------------------------------------
(* load_models, main.py:43-75 *)

Attempt(model, ok) == [model |-> model, ok |-> ok]

\* A variant in which a failure to construct the emotion pipeline is not caught.
load_models_emotion_fatal(sp, ep, primaryOk, secondaryOk) ==
    IF ~primaryOk
    THEN [sentiment |-> sp, emotion |-> ep, raised |-> TRUE,
          attempts |-> <<Attempt("sentiment", FALSE)>>]
    ELSE IF ~secondaryOk
    THEN [sentiment |-> SentimentInstance, emotion |-> ep, raised |-> TRUE,
          attempts |-> <<Attempt("sentiment", TRUE), Attempt("emotion", FALSE)>>]
    ELSE [sentiment |-> SentimentInstance, emotion |-> EmotionInstance, raised |-> FALSE,
          attempts |-> <<Attempt("sentiment", TRUE), Attempt("emotion", TRUE)>>]

\* The effect of the startup hook, given whether each pipeline(...) construction
\* succeeds: the two globals afterwards, whether the hook raised, and the
\* constructions it attempted.
load_models_outcome(sp, ep, primaryOk, secondaryOk) ==
    IF ~primaryOk
    THEN \* line 52 raises: the assignment does not happen; lines 73-75 re-raise
         [sentiment |-> sp, emotion |-> ep, raised |-> TRUE,
          attempts |-> <<Attempt("sentiment", FALSE)>>]
    ELSE IF ~secondaryOk
    THEN \* line 61 raises: lines 67-69 catch it and set emotion_pipeline = None
         [sentiment |-> SentimentInstance, emotion |-> None, raised |-> FALSE,
          attempts |-> <<Attempt("sentiment", TRUE), Attempt("emotion", FALSE)>>]
    ELSE [sentiment |-> SentimentInstance, emotion |-> EmotionInstance, raised |-> FALSE,
          attempts |-> <<Attempt("sentiment", TRUE), Attempt("emotion", TRUE)>>]

-----------------------------------------------------------------------------
(* analyze_single_text, main.py:77-125 *)

Call(model, text) == [model |-> model, text |-> text]

\* A variant that compares the raw label without lower-casing it.
normalize_case_sensitive(rawLabel, confidence) ==
    IF rawLabel \in {str_positive, str_pos}
    THEN [sentiment |-> "positive", score |-> confidence]
    ELSE IF rawLabel \in {str_negative, str_neg}
    THEN [sentiment |-> "negative", score |-> 0 - confidence]
    ELSE [sentiment |-> "neutral", score |-> 0]

\* Lines 86-98.
normalize(rawLabel, confidence) ==
    LET label == lower(rawLabel) IN
    IF label \in {str_positive, str_pos}
    THEN [sentiment |-> "positive", score |-> confidence]
    ELSE IF label \in {str_negative, str_neg}
    THEN [sentiment |-> "negative", score |-> 0 - confidence]
    ELSE [sentiment |-> "neutral", score |-> 0]

\* Lines 105-108: the dict built from the first three results; a later entry
\* with the same label replaces an earlier one.  The dict is its set of items.
emotion_dict(results) ==
    LET n == IF Len(results) < TopEmotions THEN Len(results) ELSE TopEmotions
        kept == {i \in 1..n : \A j \in (i + 1)..n : results[j].label # results[i].label}
    IN  {<<results[i].label, results[i].score>> : i \in kept}

\* A variant in which an exception of the emotion pipeline is not caught.
get_emotions_uncaught(ep, text, eo) ==
    IF ep = None
    THEN [raised |-> FALSE, emotions |-> NoEmotions, calls |-> <<>>]
    ELSE IF ~eo.ok
    THEN [raised |-> TRUE, emotions |-> NoEmotions, calls |-> <<Call("emotion", text)>>]
    ELSE [raised |-> FALSE,
          emotions |-> [present |-> TRUE, items |-> emotion_dict(eo.results)],
          calls |-> <<Call("emotion", text)>>]

\* Lines 101-110: emotions stays None unless the emotion pipeline is loaded and
\* its call returns; an exception of that call is caught and logged.
get_emotions(ep, text, eo) ==
    IF ep = None
    THEN [raised |-> FALSE, emotions |-> NoEmotions, calls |-> <<>>]
    ELSE IF ~eo.ok
    THEN [raised |-> FALSE, emotions |-> NoEmotions, calls |-> <<Call("emotion", text)>>]
    ELSE [raised |-> FALSE,
          emotions |-> [present |-> TRUE, items |-> emotion_dict(eo.results)],
          calls |-> <<Call("emotion", text)>>]

\* The outcome of analyze_single_text(text) when the primary call behaves as po
\* and the emotion call as eo: the HTTP status it ends with (200 for a returned
\* SentimentResult), the result, and the classifier calls made.
analyze_single_text(sp, ep, text, po, eo) ==
    IF sp = None
    THEN \* calling None raises TypeError inside the try: lines 123-125
         [status |-> 500, results |-> <<>>, calls |-> <<>>]
    ELSE IF ~po.ok
    THEN [status |-> 500, results |-> <<>>, calls |-> <<Call("sentiment", text)>>]
    ELSE
        LET norm == normalize(po.label, po.score)
            emo  == get_emotions(ep, text, eo)
            made == <<Call("sentiment", text)>> \o emo.calls
        IN  IF emo.raised
            THEN [status |-> 500, results |-> <<>>, calls |-> made]
            ELSE [status |-> 200,
                  results |-> << [text |-> text,
                                  sentiment |-> norm.sentiment,
                                  confidence |-> po.score,
                                  score |-> norm.score,
                                  emotions |-> emo.emotions] >>,
                  calls |-> made]

-----------------------------------------------------------------------------
(* GET / and GET /health, main.py:127-138 and 178-192 *)

models_loaded(sp, ep) == [sentiment |-> sp # None, emotion |-> ep # None]

-----------------------------------------------------------------------------
(* POST /analyze, main.py:140-149 *)

\* A variant that tests the text for emptiness without stripping it.
empty_text_unstripped(text) == text = <<>>

\* Line 146: not input_data.text.strip()
empty_text(text) == strip(text) = <<>>

\* A variant without the guard of lines 143-144.
analyze_sentiment_unguarded(sp, ep, text, po, eo) ==
    IF empty_text(text)
    THEN [status |-> 400, results |-> <<>>, calls |-> <<>>]
    ELSE analyze_single_text(sp, ep, text, po, eo)

analyze_sentiment_outcome(sp, ep, text, po, eo) ==
    IF sp = None
    THEN [status |-> 503, results |-> <<>>, calls |-> <<>>]
    ELSE IF empty_text(text)
    THEN [status |-> 400, results |-> <<>>, calls |-> <<>>]
    ELSE analyze_single_text(sp, ep, text, po, eo)

-----------------------------------------------------------------------------
(* POST /analyze/batch, main.py:151-176 *)

\* A variant whose cap is off by one.
batch_size_rejected_at_cap(texts) == Len(texts) = 0 \/ Len(texts) >= MaxTexts

\* Lines 157-161.
batch_size_rejected(texts) == Len(texts) = 0 \/ Len(texts) > MaxTexts

\* Line 167: the entries the loop passes over.
skipped(text) == strip(text) = <<>>

\* A variant that collects the results newest first.
collect_newest_first(results, result) == <<result>> \o results

\* Line 169: results.append(result)
collect(results, result) == Append(results, result)

\* A variant of the loop that drops a text whose analysis fails and goes on.
RECURSIVE batch_loop_tolerant(_, _, _, _, _, _, _, _, _)
batch_loop_tolerant(sp, ep, texts, i, pos, eos, k, results, made) ==
    IF i > Len(texts)
    THEN [status |-> 200, results |-> results, calls |-> made]
    ELSE IF skipped(texts[i])
    THEN batch_loop_tolerant(sp, ep, texts, i + 1, pos, eos, k, results, made)
    ELSE
        LET r == analyze_single_text(sp, ep, texts[i], pos[k], eos[k]) IN
        IF r.status # 200
        THEN batch_loop_tolerant(sp, ep, texts, i + 1, pos, eos, k + 1, results,
                                 made \o r.calls)
        ELSE batch_loop_tolerant(sp, ep, texts, i + 1, pos, eos, k + 1,
                                 collect(results, r.results[1]), made \o r.calls)

\* Lines 166-169 from entry i on: pos[k] and eos[k] are what the classifiers do
\* on the k-th text that is analyzed.  The HTTPException that
\* analyze_single_text raises leaves the loop and the handler.
RECURSIVE batch_loop(_, _, _, _, _, _, _, _, _)
batch_loop(sp, ep, texts, i, pos, eos, k, results, made) ==
    IF i > Len(texts)
    THEN [status |-> 200, results |-> results, calls |-> made]
    ELSE IF skipped(texts[i])
    THEN batch_loop(sp, ep, texts, i + 1, pos, eos, k, results, made)
    ELSE
        LET r == analyze_single_text(sp, ep, texts[i], pos[k], eos[k]) IN
        IF r.status # 200
        THEN [status |-> r.status, results |-> <<>>, calls |-> made \o r.calls]
        ELSE batch_loop(sp, ep, texts, i + 1, pos, eos, k + 1,
                        collect(results, r.results[1]), made \o r.calls)

\* A variant without the guard of lines 154-155.
analyze_batch_sentiment_unguarded(sp, ep, texts, pos, eos) ==
    IF batch_size_rejected(texts)
    THEN [status |-> 400, results |-> <<>>, calls |-> <<>>]
    ELSE batch_loop(sp, ep, texts, 1, pos, eos, 1, <<>>, <<>>)

analyze_batch_sentiment_outcome(sp, ep, texts, pos, eos) ==
    IF sp = None
    THEN [status |-> 503, results |-> <<>>, calls |-> <<>>]
    ELSE IF batch_size_rejected(texts)
    THEN [status |-> 400, results |-> <<>>, calls |-> <<>>]
    ELSE batch_loop(sp, ep, texts, 1, pos, eos, 1, <<>>, <<>>)

-----------------------------------------------------------------------------
(* The batches drawn *)

RECURSIVE SeqsUpTo(_, _)
SeqsUpTo(S, n) ==
    IF n = 0 THEN {<<>>}
    ELSE LET shorter == SeqsUpTo(S, n - 1) IN
         shorter \cup {Append(q, x) : q \in {q \in shorter : Len(q) = n - 1}, x \in S}

ShortBatches == SeqsUpTo(Texts, MaxBatchLen)

\* Batches at and just beyond the cap: one text repeated.
LongBatches ==
    {[i \in 1..n |-> t] : t \in Texts, n \in {MaxTexts, MaxTexts + 1}}

Analyzed(texts) == Cardinality({i \in 1..Len(texts) : ~skipped(texts[i])})

\* One outcome per analyzed text.
OutcomeSeqs(S, n) == IF n = 0 THEN {<<>>} ELSE [1..n -> S]
\* The same outcome for each analyzed text.
UniformSeqs(S, n) == IF n = 0 THEN {<<>>} ELSE {[i \in 1..n |-> o] : o \in S}

-----------------------------------------------------------------------------
(* State machine *)

Init ==
    /\ phase = "init"
    /\ sentiment_pipeline = None
    /\ emotion_pipeline = None
    /\ loadLog = <<>>
    /\ req = NoRequest
    /\ resp = NoResponse
    /\ calls = <<>>

Idle == phase # "failed" /\ req.op = "none"

\* The startup hook: it has no await, so it runs to its end before any handler.
load_models ==
    /\ phase = "init"
    /\ req.op = "none"
    /\ \E primaryOk \in BOOLEAN, secondaryOk \in BOOLEAN :
        LET o == load_models_outcome(sentiment_pipeline, emotion_pipeline,
                                     primaryOk, secondaryOk) IN
        /\ sentiment_pipeline' = o.sentiment
        /\ emotion_pipeline' = o.emotion
        /\ loadLog' = o.attempts
        /\ phase' = IF o.raised THEN "failed" ELSE "ready"
    /\ UNCHANGED <<req, resp, calls>>

root ==
    /\ Idle
    /\ req' = [NoRequest EXCEPT !.op = "root"]
    /\ resp' = Response(200, <<>>, models_loaded(sentiment_pipeline, emotion_pipeline))
    /\ calls' = <<>>
    /\ UNCHANGED <<phase, sentiment_pipeline, emotion_pipeline, loadLog>>

health_check ==
    /\ Idle
    /\ req' = [NoRequest EXCEPT !.op = "health"]
    /\ resp' = Response(200, <<>>, models_loaded(sentiment_pipeline, emotion_pipeline))
    /\ calls' = <<>>
    /\ UNCHANGED <<phase, sentiment_pipeline, emotion_pipeline, loadLog>>

\* A variant of the handler that drops the emotion pipeline once its call raised.
analyze_sentiment_drops_emotion ==
    /\ Idle
    /\ \E text \in Texts, po \in PrimaryOutcomes, eo \in EmotionOutcomes :
        LET o == analyze_sentiment_outcome(sentiment_pipeline, emotion_pipeline,
                                           text, po, eo) IN
        /\ req' = [op |-> "analyze", texts |-> <<text>>,
                   primary |-> <<po>>, emotion |-> <<eo>>]
        /\ resp' = Response(o.status, o.results, NoModels)
        /\ calls' = o.calls
        /\ emotion_pipeline' =
              IF o.status = 200 /\ ~eo.ok THEN None ELSE emotion_pipeline
    /\ UNCHANGED <<phase, sentiment_pipeline, loadLog>>

analyze_sentiment ==
    /\ Idle
    /\ \E text \in Texts, po \in PrimaryOutcomes, eo \in EmotionOutcomes :
        LET o == analyze_sentiment_outcome(sentiment_pipeline, emotion_pipeline,
                                           text, po, eo) IN
        /\ req' = [op |-> "analyze", texts |-> <<text>>,
                   primary |-> <<po>>, emotion |-> <<eo>>]
        /\ resp' = Response(o.status, o.results, NoModels)
        /\ calls' = o.calls
    /\ UNCHANGED <<phase, sentiment_pipeline, emotion_pipeline, loadLog>>

BatchServed(texts, pos, eos) ==
    LET o == analyze_batch_sentiment_outcome(sentiment_pipeline, emotion_pipeline,
                                             texts, pos, eos) IN
    /\ req' = [op |-> "batch", texts |-> texts, primary |-> pos, emotion |-> eos]
    /\ resp' = Response(o.status, o.results, NoModels)
    /\ calls' = o.calls

analyze_batch_sentiment ==
    /\ Idle
    /\ \/ \E texts \in ShortBatches :
            \E pos \in OutcomeSeqs(BatchPrimaryOutcomes, Analyzed(texts)),
               eos \in OutcomeSeqs(BatchEmotionOutcomes, Analyzed(texts)) :
                BatchServed(texts, pos, eos)
       \/ \E texts \in LongBatches :
            \E pos \in UniformSeqs(BatchPrimaryOutcomes, Analyzed(texts)),
               eos \in UniformSeqs(BatchEmotionOutcomes, Analyzed(texts)) :
                BatchServed(texts, pos, eos)
    /\ UNCHANGED <<phase, sentiment_pipeline, emotion_pipeline, loadLog>>

\* The response is sent; the request-scoped objects are gone.
respond ==
    /\ req.op # "none"
    /\ req' = NoRequest
    /\ resp' = NoResponse
    /\ calls' = <<>>
    /\ UNCHANGED <<phase, sentiment_pipeline, emotion_pipeline, loadLog>>

Next ==
    \/ load_models
    \/ root
    \/ health_check
    \/ analyze_sentiment
    \/ analyze_batch_sentiment
    \/ respond

Spec == Init /\ [][Next]_vars

-----------------------------------------------------------------------------
(* Vocabulary of the properties *)

OnlyWhitespace(t) == \A i \in 1..Len(t) : t[i] \in Whitespace
HasContent(t) == ~OnlyWhitespace(t)
ContentTexts(texts) == SelectSeq(texts, HasContent)

EqualsIgnoringCase(label, word) ==
    /\ Len(label) = Len(word)
    /\ \A i \in 1..Len(word) :
          \/ label[i] = word[i]
          \/ \E k \in 1..26 : LowerLetters[k] = word[i] /\ UpperLetters[k] = label[i]

SaysPositive(label) ==
    EqualsIgnoringCase(label, str_positive) \/ EqualsIgnoringCase(label, str_pos)
SaysNegative(label) ==
    EqualsIgnoringCase(label, str_negative) \/ EqualsIgnoringCase(label, str_neg)

Analysis == req.op \in {"analyze", "batch"}
PrimaryLoaded == sentiment_pipeline # None
BatchSizeAllowed == Len(req.texts) >= 1 /\ Len(req.texts) <= 100

\* The request passed the checks the handler makes before it classifies.
Accepted ==
    /\ PrimaryLoaded
    /\ req.op = "analyze" => HasContent(req.texts[1])
    /\ req.op = "batch" => BatchSizeAllowed

IsSentimentCall(c) == c.model = "sentiment"
SentimentCallTexts ==
    LET sc == SelectSeq(calls, IsSentimentCall) IN [i \in 1..Len(sc) |-> sc[i].text]

\* The analyzed texts on which the primary classifier raises.
Failing == {k \in 1..Len(ContentTexts(req.texts)) : ~req.primary[k].ok}

-----------------------------------------------------------------------------
(* Properties *)

\* C1: every returned result carries the confidence c unchanged; a label that
\* is positive/pos in any letter case gives sentiment positive and score +c, one
\* that is negative/neg gives negative and -c, any other gives neutral and 0.
C1_LabelNormalization ==
    (Analysis /\ resp.status = 200) =>
        \A j \in 1..Len(resp.results) :
            LET raw == req.primary[j].label
                c == req.primary[j].score
                r == resp.results[j]
            IN  /\ r.confidence = c
                /\ SaysPositive(raw) => r.sentiment = "positive" /\ r.score = c
                /\ SaysNegative(raw) => r.sentiment = "negative" /\ r.score = 0 - c
                /\ (~SaysPositive(raw) /\ ~SaysNegative(raw)) =>
                        r.sentiment = "neutral" /\ r.score = 0

C1_Witness ==
    /\ req.op = "analyze"
    /\ resp.status = 200
    /\ req.primary[1].label = <<"N","E","G">>
    /\ req.primary[1].score = MaxConf
    /\ resp.results[1].score < 0

\* C2: an accepted batch on which no classification fails succeeds with one
\* result per entry that has content, in input order, each carrying the
\* untrimmed entry; the classifiers are called for those entries only.
C2_BatchOrder ==
    (req.op = "batch" /\ Accepted /\ Failing = {}) =>
        LET kept == ContentTexts(req.texts) IN
        /\ resp.status = 200
        /\ Len(resp.results) = Len(kept)
        /\ \A j \in 1..Len(kept) : resp.results[j].text = kept[j]
        /\ SentimentCallTexts = kept
        /\ \A i \in 1..Len(calls) : HasContent(calls[i].text)

C2_Witness ==
    /\ req.op = "batch"
    /\ resp.status = 200
    /\ Len(req.texts) = 3
    /\ OnlyWhitespace(req.texts[2])
    /\ Len(resp.results) = 2
    /\ resp.results[1].text = <<" ", "b", "a", "d", "\n">>
    /\ resp.results[2].text = <<"o", "k">>

\* C3 as stated: an empty or over-long batch is answered 400 with no classifier
\* call; a batch of 1 to 100 entries is not answered 400.
C3_AsStated ==
    req.op = "batch" =>
        /\ ~BatchSizeAllowed => resp.status = 400 /\ calls = <<>>
        /\ BatchSizeAllowed => resp.status # 400

\* C3, amended: the same while the primary classifier is loaded; while it is
\* not, the batch is answered 503 whatever its size.
C3_BatchSize ==
    req.op = "batch" =>
        /\ (PrimaryLoaded /\ ~BatchSizeAllowed) => resp.status = 400 /\ calls = <<>>
        /\ (~PrimaryLoaded /\ ~BatchSizeAllowed) => resp.status = 503 /\ calls = <<>>
        /\ BatchSizeAllowed => resp.status # 400

C3_Witness ==
    /\ req.op = "batch"
    /\ PrimaryLoaded
    /\ Len(req.texts) = 101
    /\ HasContent(req.texts[1])
    /\ resp.status = 400

\* C4: when the primary classification succeeds the analysis succeeds, whatever
\* the emotion classifier does; where that classifier is absent or raises, the
\* result has no emotions.
C4_EmotionBestEffort ==
    (Analysis /\ Accepted /\ Failing = {}) =>
        /\ resp.status = 200
        /\ Len(resp.results) = Len(ContentTexts(req.texts))
        /\ \A j \in 1..Len(resp.results) :
              (emotion_pipeline = None \/ ~req.emotion[j].ok) =>
                  ~resp.results[j].emotions.present

C4_Witness ==
    /\ req.op = "analyze"
    /\ emotion_pipeline # None
    /\ resp.status = 200
    /\ ~req.emotion[1].ok
    /\ ~resp.results[1].emotions.present
    /\ Len(calls) = 2

\* C5: when the primary classifier raises on the k-th analyzed text of an
\* accepted batch, the answer is 500 without results, and the primary classifier
\* was called for the first k texts with content and for no later one.
C5_BatchAbort ==
    (req.op = "batch" /\ Accepted /\ Failing # {}) =>
        LET k == CHOOSE n \in Failing : \A m \in Failing : n <= m IN
        /\ resp.status = 500
        /\ resp.results = <<>>
        /\ SentimentCallTexts = SubSeq(ContentTexts(req.texts), 1, k)

C5_Witness ==
    /\ req.op = "batch"
    /\ PrimaryLoaded
    /\ Len(ContentTexts(req.texts)) = 3
    /\ req.primary[1].ok
    /\ ~req.primary[2].ok
    /\ req.primary[3].ok
    /\ resp.status = 500

\* C6 as stated: POST /analyze with a blank text is answered 400 with no
\* classifier call.
C6_AsStated ==
    (req.op = "analyze" /\ OnlyWhitespace(req.texts[1])) =>
        resp.status = 400 /\ calls = <<>>

\* C6, amended: the same while the primary classifier is loaded; while it is
\* not, the blank text is answered 503.
C6_BlankRejected ==
    (req.op = "analyze" /\ OnlyWhitespace(req.texts[1])) =>
        /\ calls = <<>>
        /\ PrimaryLoaded => resp.status = 400
        /\ ~PrimaryLoaded => resp.status = 503

C6_Witness ==
    /\ req.op = "analyze"
    /\ PrimaryLoaded
    /\ req.texts[1] = <<"\t", " ">>
    /\ resp.status = 400

\* C7: while the primary classifier is not loaded both analysis endpoints answer
\* 503 and call no classifier; while it is loaded neither answers 503.
C7_ServiceUnavailable ==
    Analysis =>
        /\ ~PrimaryLoaded => resp.status = 503 /\ calls = <<>>
        /\ PrimaryLoaded => resp.status # 503

C7_Witness ==
    /\ req.op = "batch"
    /\ ~PrimaryLoaded
    /\ Len(req.texts) = 2
    /\ HasContent(req.texts[1])
    /\ resp.status = 503

\* C8: when the construction of the primary classifier fails, startup fails and
\* the emotion classifier is never constructed; when only the construction of
\* the emotion classifier fails, startup completes with the primary loaded and
\* the emotion classifier absent, and GET / and GET /health report so.
C8_Startup ==
    /\ (loadLog # <<>> /\ ~loadLog[1].ok) =>
            /\ phase = "failed"
            /\ \A i \in 1..Len(loadLog) : loadLog[i].model # "emotion"
    /\ (Len(loadLog) = 2 /\ loadLog[1].ok /\ ~loadLog[2].ok) =>
            /\ phase = "ready"
            /\ sentiment_pipeline # None
            /\ emotion_pipeline = None
            /\ req.op \in {"root", "health"} =>
                    resp.models = [sentiment |-> TRUE, emotion |-> FALSE]

C8_Witness ==
    /\ Len(loadLog) = 2
    /\ ~loadLog[2].ok
    /\ req.op = "health"
    /\ resp.status = 200

\* C9: an analysis request handled before the startup hook has run is answered
\* 503, with no result and no classifier call.
C9_InitFirst ==
    (phase = "init" /\ Analysis) =>
        /\ resp.status = 503
        /\ resp.results = <<>>
        /\ calls = <<>>

C9_Witness ==
    /\ phase = "init"
    /\ req.op = "analyze"
    /\ HasContent(req.texts[1])
    /\ req.primary[1].ok
    /\ resp.status = 503

\* C10: a step that handles a request or sends its response leaves both model
\* handles as they were; a handle changes only in the step of load_models.
C10_HandlesReadOnly ==
    [][ /\ req' # req =>
              /\ sentiment_pipeline' = sentiment_pipeline
              /\ emotion_pipeline' = emotion_pipeline
        /\ (sentiment_pipeline' # sentiment_pipeline
              \/ emotion_pipeline' # emotion_pipeline) =>
              phase = "init" /\ phase' # "init" ]_vars

C10_Witness ==
    /\ phase = "ready"
    /\ req.op = "analyze"
    /\ resp.status = 200
    /\ ~req.emotion[1].ok
    /\ sentiment_pipeline = SentimentInstance
    /\ emotion_pipeline = EmotionInstance

====
